---- MODULE Spec2Model ----
(***************************************************************************)
(* Model of the knowledge-graph pipeline: entity normalisation and         *)
(* deduplication (src/src/entity_extractor.py), the oracle wrapper         *)
(* (src/src/utils/llm.py) and graph assembly (src/src/graph_buider.py).    *)
(*                                                                         *)
(* Strings are sequences of Unicode code points, so that case folding,     *)
(* character classes and lexicographic sorting are computed, not assumed.  *)
(***************************************************************************)
EXTENDS Integers, Sequences, FiniteSets, Bags, TLC

VARIABLES
    \* ---- EntityExtractor._to_camel_case applied to one input
    text,          \* the input string
    normalized,    \* _to_camel_case(text), or "unset"
    renormalized,  \* _to_camel_case(_to_camel_case(text)), or "unset"
    npc,           \* position of the normalisation run
    \* ---- EntityExtractor._deduplicate applied to one input
    ents,          \* the input list of strings
    uniq,          \* _deduplicate(ents), or "unset"
    uniq2,         \* _deduplicate(_deduplicate(ents)), or "unset"
    dpc,           \* position of the deduplication run
    \* ---- GraphBuilder
    fileExists,    \* which of the two required input files exist
    triples,       \* content of triples.json: a list of <<head, rel, tail>>
    doc_entities,  \* content of doc_entities.json: <<doc_id, entities>> in key order
    nodes,         \* self.graph: node id -> attribute dictionary
    edges,         \* self.graph: bag of <<source, target, rel>> (parallel edges counted)
    gpc,           \* position of the builder
    gerr,          \* the exception that ended the builder, or "none"
    runs,          \* number of calls of run() started on the builder
    saved,         \* the two graph files written by _save
    \* ---- EntityExtractor.run
    apiKey,        \* whether OPENAI_API_KEY is set
    nfiles,        \* number of *.txt files of the corpus directory
    cur,           \* the file being processed: its doc_id and number of chunks
    result,        \* run()'s result dictionary: doc_id -> entity list
    epc,           \* position of the extractor
    fi,            \* index of the file being processed, 0 before the loop
    sent,          \* chunks of that file already passed to _call_llm
    raw,           \* _process_file's raw list
    usable,        \* the strings of the arrays of strings the oracle returned for that file
    files          \* the output file and its staging file

normVars  == <<text, normalized, renormalized, npc>>
dedupVars == <<ents, uniq, uniq2, dpc>>
graphVars == <<fileExists, triples, doc_entities, nodes, edges, gpc, gerr, runs, saved>>
extractVars == <<apiKey, nfiles, cur, result, epc, fi, sent, raw, usable, files>>
vars == <<normVars, dedupVars, graphVars, extractVars>>

(***************************************************************************)
(* Characters and strings                                                  *)
(***************************************************************************)
\* str.isupper / str.islower on the Latin and basic Cyrillic ranges
IsUpper(c) == c \in 65..90 \/ c \in 1040..1071
IsLower(c) == c \in 97..122 \/ c \in 1072..1103
IsDigit(c) == c \in 48..57
\* regex \w : alphanumeric or underscore
IsWordChar(c) == IsUpper(c) \/ IsLower(c) \/ IsDigit(c) \/ c = 95
\* regex \s and str.split / str.strip whitespace
IsSpace(c) == c \in {9, 10, 11, 12, 13, 32}

\* str.lower / str.upper on one character
Lower(c) == IF IsUpper(c) THEN c + 32 ELSE c
Upper(c) == IF IsLower(c) THEN c - 32 ELSE c

LowerStr(s) == [i \in 1..Len(s) |-> Lower(s[i])]

\* str.capitalize: first character upper-cased, every other one lower-cased
Capitalize(w) ==
    [i \in 1..Len(w) |-> IF i = 1 THEN Upper(w[i]) ELSE Lower(w[i])]

\* str.split(): the maximal runs of non-whitespace characters, in order
RECURSIVE SplitFrom(_, _, _)
SplitFrom(s, i, tok) ==
    IF i > Len(s)
    THEN (IF tok = <<>> THEN <<>> ELSE <<tok>>)
    ELSE IF IsSpace(s[i])
         THEN (IF tok = <<>> THEN SplitFrom(s, i + 1, <<>>)
               ELSE <<tok>> \o SplitFrom(s, i + 1, <<>>))
         ELSE SplitFrom(s, i + 1, Append(tok, s[i]))
Split(s) == SplitFrom(s, 1, <<>>)

\* "".join(...)
RECURSIVE Join(_)
Join(ws) == IF ws = <<>> THEN <<>> ELSE Head(ws) \o Join(Tail(ws))

\* re.sub(r"[^\w\s]", "", text)
StripPunct(s) == SelectSeq(s, LAMBDA c : IsWordChar(c) \/ IsSpace(c))

\* EntityExtractor._to_camel_case
ToCamelCase(s) ==
    LET ws == Split(StripPunct(s))
    IN  Join([i \in 1..Len(ws) |-> Capitalize(ws[i])])

\* str.strip()
RECURSIVE LStrip(_)
LStrip(s) == IF s # <<>> /\ IsSpace(Head(s)) THEN LStrip(Tail(s)) ELSE s
RECURSIVE RStrip(_)
RStrip(s) ==
    IF s # <<>> /\ IsSpace(s[Len(s)]) THEN RStrip(SubSeq(s, 1, Len(s) - 1)) ELSE s
Strip(s) == RStrip(LStrip(s))

\* str < str : lexicographic by code point
RECURSIVE StrLess(_, _)
StrLess(a, b) ==
    IF b = <<>> THEN FALSE
    ELSE IF a = <<>> THEN TRUE
    ELSE IF Head(a) # Head(b) THEN Head(a) < Head(b)
    ELSE StrLess(Tail(a), Tail(b))

\* sorted(list of str): stable insertion into ascending order
RECURSIVE InsertSorted(_, _)
InsertSorted(x, xs) ==
    IF xs = <<>> THEN <<x>>
    ELSE IF StrLess(x, Head(xs)) THEN <<x>> \o xs
    ELSE <<Head(xs)>> \o InsertSorted(x, Tail(xs))
RECURSIVE Sorted(_)
Sorted(xs) ==
    IF xs = <<>> THEN <<>>
    ELSE InsertSorted(xs[Len(xs)], Sorted(SubSeq(xs, 1, Len(xs) - 1)))

Range(f) == {f[i] : i \in DOMAIN f}
Min(S) == CHOOSE x \in S : \A y \in S : x <= y
MinOf(a, b) == IF a < b THEN a ELSE b
MaxOf(a, b) == IF a > b THEN a ELSE b

(***************************************************************************)
(* textdistance.jaro_winkler (defaults: winklerize, prefix weight 0.1,     *)
(* no long-string tolerance), as called from _deduplicate.                 *)
(***************************************************************************)
\* the flagging loop: each character of s1, in order, takes the first
\* unflagged equal character of s2 within the search range
RECURSIVE MatchLoop(_, _, _, _, _, _)
MatchLoop(s1, s2, sr, i, f1, f2) ==
    IF i > Len(s1) THEN <<f1, f2>>
    ELSE LET low  == MaxOf(1, i - sr)
             hi   == MinOf(i + sr, Len(s2))
             cand == {j \in low..hi : j \notin f2 /\ s2[j] = s1[i]}
         IN  IF cand = {} THEN MatchLoop(s1, s2, sr, i + 1, f1, f2)
             ELSE MatchLoop(s1, s2, sr, i + 1, f1 \cup {i}, f2 \cup {Min(cand)})

\* the elements of a set of indices in ascending order
RECURSIVE Ascending(_)
Ascending(S) ==
    IF S = {} THEN <<>> ELSE <<Min(S)>> \o Ascending(S \ {Min(S)})

\* <<common_chars, trans_count, prefix>> of the Jaro-Winkler computation
JaroParts(s1, s2) ==
    LET l1 == Len(s1)
        l2 == Len(s2)
        sr0 == (MaxOf(l1, l2) \div 2) - 1
        sr == IF sr0 < 0 THEN 0 ELSE sr0
        fl == MatchLoop(s1, s2, sr, 1, {}, {})
        m1 == Ascending(fl[1])
        m2 == Ascending(fl[2])
        common == Len(m1)
        halfTrans == Cardinality({n \in 1..common : s1[m1[n]] # s2[m2[n]]})
        lim == MinOf(MinOf(l1, l2), 4)
        prefix == Cardinality({i \in 1..lim : \A k \in 1..i : s1[k] = s2[k]})
    IN  <<common, halfTrans \div 2, prefix>>

\* DUP_THRESHOLD = 0.85, as the fraction DupThresholdNum / DupThresholdDen
DupThresholdNum == 85
DupThresholdDen == 100

\* jaro_winkler(s1, s2) > DUP_THRESHOLD.  With N/D the Jaro weight
\* (c/l1 + c/l2 + (c-t)/c)/3 and p the common prefix (counted only when the
\* weight exceeds 0.7), the result is (10N + p(D-N)) / 10D.  The code
\* computes in IEEE doubles: whenever the exact result differs from 0.85 the
\* double comparison agrees with the exact one; when it is exactly 17/20 the
\* double result is 0.8500000000000001 (above the literal 0.85) if p = 1 and
\* 0.85 (not above) otherwise, for every pair of strings shorter than 36.
JaroWinklerAbove(s1, s2) ==
    IF s1 = s2 THEN TRUE
    ELSE IF s1 = <<>> \/ s2 = <<>> THEN FALSE
    ELSE LET parts == JaroParts(s1, s2)
             c == parts[1]
             t == parts[2]
             l1 == Len(s1)
             l2 == Len(s2)
             N == c * c * l2 + c * c * l1 + (c - t) * l1 * l2
             D == 3 * l1 * l2 * c
             p == IF 10 * N > 7 * D THEN parts[3] ELSE 0
             lhs == DupThresholdDen * (10 * N + p * (D - N))
             rhs == DupThresholdNum * 10 * D
         IN  IF c = 0 THEN FALSE
             ELSE lhs > rhs \/ (lhs = rhs /\ p = 1)

\* the stop-word set of the extractor
STOPWORDS ==
    { <<65, 112, 112>>,                                    \* App
      <<65, 112, 112, 108, 105, 99, 97, 116, 105, 111, 110>>, \* Application
      <<68, 97, 116, 97>>,                                 \* Data
      <<70, 105, 108, 101>>,                               \* File
      <<83, 121, 115, 116, 101, 109>>,                     \* System
      <<1055, 1088, 1080, 1083, 1086, 1078, 1077, 1085, 1080, 1077>>,
      <<1044, 1072, 1085, 1085, 1099, 1077>>,
      <<1057, 1080, 1089, 1090, 1077, 1084, 1072>>,
      <<1060, 1072, 1081, 1083>> }

\* _deduplicate comparing the strings as written, without lower()
RECURSIVE DedupLoopCaseSensitive(_, _, _)
DedupLoopCaseSensitive(xs, i, acc) ==
    IF i > Len(xs) THEN acc
    ELSE LET ent == Strip(xs[i])
         IN  IF Len(ent) <= 2 \/ ent \in STOPWORDS
             THEN DedupLoopCaseSensitive(xs, i + 1, acc)
             ELSE IF \E k \in 1..Len(acc) : JaroWinklerAbove(ent, acc[k])
                  THEN DedupLoopCaseSensitive(xs, i + 1, acc)
                  ELSE DedupLoopCaseSensitive(xs, i + 1, Append(acc, ent))

\* _deduplicate testing the length before strip() instead of after it
RECURSIVE DedupLoopLenBeforeStrip(_, _, _)
DedupLoopLenBeforeStrip(xs, i, acc) ==
    IF i > Len(xs) THEN acc
    ELSE LET ent == Strip(xs[i])
         IN  IF Len(xs[i]) <= 2 \/ ent \in STOPWORDS
             THEN DedupLoopLenBeforeStrip(xs, i + 1, acc)
             ELSE IF \E k \in 1..Len(acc) :
                        JaroWinklerAbove(LowerStr(ent), LowerStr(acc[k]))
                  THEN DedupLoopLenBeforeStrip(xs, i + 1, acc)
                  ELSE DedupLoopLenBeforeStrip(xs, i + 1, Append(acc, ent))

\* the body of the loop of _deduplicate, from the i-th input on
RECURSIVE DedupLoop(_, _, _)
DedupLoop(xs, i, acc) ==
    IF i > Len(xs) THEN acc
    ELSE LET ent == Strip(xs[i])
         IN  IF Len(ent) <= 2 \/ ent \in STOPWORDS
             THEN DedupLoop(xs, i + 1, acc)
             ELSE IF \E k \in 1..Len(acc) :
                        JaroWinklerAbove(LowerStr(ent), LowerStr(acc[k]))
                  THEN DedupLoop(xs, i + 1, acc)
                  ELSE DedupLoop(xs, i + 1, Append(acc, ent))

\* EntityExtractor._deduplicate
Deduplicate(xs) == Sorted(DedupLoop(xs, 1, <<>>))

(***************************************************************************)
(* GraphBuilder: the networkx MultiDiGraph and the two assembly passes     *)
(***************************************************************************)
ALLOWED_RELS ==
    { "defines", "uses", "depends_on", "implements", "part_of", "type_of",
      "runs_on", "opposite_of", "mentions" }

\* a graph: nodes with their attribute dictionaries, and a bag of edges
EmptyGraph == [nodes |-> <<>>, edges |-> EmptyBag]

\* MultiDiGraph.add_node(n, **attrs): a new node gets attrs; on a node that
\* exists the given attributes overwrite the stored ones
AddNode(g, n, attrs) ==
    [g EXCEPT !.nodes =
        IF n \in DOMAIN g.nodes
        THEN [g.nodes EXCEPT ![n] = attrs @@ g.nodes[n]]
        ELSE (n :> attrs) @@ g.nodes]

\* MultiDiGraph.add_edge(u, v, rel=rel): always one more edge u -> v (a
\* fresh key), endpoints created without attributes if absent
AddEdge(g, u, v, rel) ==
    LET withU == IF u \in DOMAIN g.nodes THEN g.nodes ELSE (u :> <<>>) @@ g.nodes
        withV == IF v \in DOMAIN withU THEN withU ELSE (v :> <<>>) @@ withU
    IN  [nodes |-> withV, edges |-> g.edges (+) SetToBag({<<u, v, rel>>})]

\* _add_triples accepting every relation of ALLOWED_RELS, "mentions" too
RECURSIVE AddTriplesLoopAllowingMentions(_, _, _, _)
AddTriplesLoopAllowingMentions(ts, i, seen, g) ==
    IF i > Len(ts) THEN g
    ELSE LET head == ts[i][1]
             rel  == ts[i][2]
             tail == ts[i][3]
         IN  IF rel \notin ALLOWED_RELS
             THEN AddTriplesLoopAllowingMentions(ts, i + 1, seen, g)
             ELSE IF ts[i] \in seen
                  THEN AddTriplesLoopAllowingMentions(ts, i + 1, seen, g)
                  ELSE AddTriplesLoopAllowingMentions(ts, i + 1, seen \cup {ts[i]},
                         AddEdge(AddNode(AddNode(g, head, [type |-> "entity"]),
                                         tail, [type |-> "entity"]),
                                 head, tail, rel))

\* the loop of _add_triples from the i-th triple on, with its seen-set
RECURSIVE AddTriplesLoop(_, _, _, _)
AddTriplesLoop(ts, i, seen, g) ==
    IF i > Len(ts) THEN g
    ELSE LET head == ts[i][1]
             rel  == ts[i][2]
             tail == ts[i][3]
         IN  IF rel \notin ALLOWED_RELS \ {"mentions"}
             THEN AddTriplesLoop(ts, i + 1, seen, g)
             ELSE IF ts[i] \in seen
                  THEN AddTriplesLoop(ts, i + 1, seen, g)
                  ELSE AddTriplesLoop(ts, i + 1, seen \cup {ts[i]},
                         AddEdge(AddNode(AddNode(g, head, [type |-> "entity"]),
                                         tail, [type |-> "entity"]),
                                 head, tail, rel))

\* GraphBuilder._add_triples
AddTriples(g, ts) == AddTriplesLoop(ts, 1, {}, g)

\* the keys of the doc-entity mapping and int(doc_id) of each
DocIds == {"1", "2"}
IntOf(d) == IF d = "1" THEN 1 ELSE 2
\* f"DOC_{doc_id}"
DocNode(d) == "DOC_" \o d

\* the inner loop of _link_documents over one document's entities
RECURSIVE LinkEntities(_, _, _, _)
LinkEntities(g, doc_node, es, k) ==
    IF k > Len(es) THEN g
    ELSE LinkEntities(
            AddEdge(AddNode(g, es[k], [type |-> "entity"]), es[k], doc_node, "mentions"),
            doc_node, es, k + 1)

\* the loop of _link_documents from the i-th document on
RECURSIVE LinkDocumentsLoop(_, _, _)
LinkDocumentsLoop(g, de, i) ==
    IF i > Len(de) THEN g
    ELSE LET doc_id   == de[i][1]
             doc_node == DocNode(doc_id)
             withDoc  == AddNode(g, doc_node,
                                 [type |-> "document", doc_id |-> IntOf(doc_id)])
         IN  LinkDocumentsLoop(LinkEntities(withDoc, doc_node, de[i][2], 1), de, i + 1)

\* GraphBuilder._link_documents
LinkDocuments(g, de) == LinkDocumentsLoop(g, de, 1)

\* the files _check_required_files looks for, in its order
required == <<"doc_entities.json", "triples.json">>

\* _check_required_files looking for the first required file only
FirstMissingOfFirstOnly(exists) ==
    IF exists[required[1]] THEN 0 ELSE 1

\* _check_required_files: the index of the file its exception names, 0 if
\* every required file exists
FirstMissing(exists) ==
    LET missing == {k \in 1..Len(required) : ~exists[required[k]]}
    IN  IF missing = {} THEN 0 ELSE Min(missing)

\* a graph file on disk
Absent == [state |-> "absent", graph |-> EmptyGraph]
Partial(g) == [state |-> "partial", graph |-> g]
Complete(g) == [state |-> "complete", graph |-> g]
\* a graph saved by an earlier execution of the program
EarlierGraph ==
    [nodes |-> ("Old" :> [type |-> "entity"]), edges |-> EmptyBag]

(***************************************************************************)
(* EntityExtractor.run: the oracle call, one file, the output artifact     *)
(***************************************************************************)
\* an element of a parsed JSON array: a string, or a value of another type
StrItem(v) == [str |-> TRUE, val |-> v]
NonStrItem == [str |-> FALSE, val |-> <<>>]

\* what the oracle does with one request once the client exists: it raises
\* (timeout, network), or returns text without "[...]", or text whose
\* bracketed part is no JSON, or text whose bracketed part is a JSON array
Raises == [kind |-> "raises", items |-> <<>>]
NoArray == [kind |-> "no_array", items |-> <<>>]
BadJson == [kind |-> "bad_json", items |-> <<>>]
Array(items) == [kind |-> "array", items |-> items]

\* ask_openai: _build_chat raises EnvironmentError without the key, and
\* every exception is logged and raised again
AskOpenai(key, resp) ==
    IF ~key THEN [raised |-> TRUE, content |-> NoArray]
    ELSE IF resp.kind = "raises" THEN [raised |-> TRUE, content |-> NoArray]
    ELSE [raised |-> FALSE, content |-> resp]

\* _fetch_async: the parsed array, or [] when ask_openai raised, no array
\* was found or json.loads raised
FetchAsync(key, resp) ==
    LET r == AskOpenai(key, resp)
    IN  IF r.raised THEN <<>>
        ELSE IF r.content.kind = "array" THEN r.content.items
        ELSE <<>>

\* _process_file after its chunk loop: _to_camel_case on each element raises
\* TypeError on an element that is no string (caught: None); otherwise the
\* deduplicated list, None when it is empty
Cleaned(rawList) ==
    IF \E k \in 1..Len(rawList) : ~rawList[k].str
    THEN [none |-> TRUE, list |-> <<>>]
    ELSE LET cleaned == Deduplicate([k \in 1..Len(rawList) |-> ToCamelCase(rawList[k].val)])
         IN  [none |-> cleaned = <<>>, list |-> cleaned]

\* result.update(res)
Update(m, d, list) == (d :> list) @@ m

\* self.output_path and Path.with_suffix
OutputPath == <<"doc_entities", ".json">>
WithSuffix(path, suffix) == <<path[1], suffix>>
\* run() staging under the name of the output file itself
StagingPathIsOutput == WithSuffix(OutputPath, ".json")
\* tmp = self.output_path.with_suffix(".tmp")
StagingPath == WithSuffix(OutputPath, ".tmp")

\* a mapping file on disk
FileAbsent == [state |-> "absent", data |-> <<>>]
FilePartial(m) == [state |-> "partial", data |-> m]
FileComplete(m) == [state |-> "complete", data |-> m]
\* Path.replace
Rename(fs, src, dst) ==
    IF src = dst THEN fs
    ELSE [fs EXCEPT ![dst] = fs[src], ![src] = FileAbsent]
\* the artifact left by an earlier execution: {"7": ["Old"]}
PreviousResult == ("7" :> << <<79, 108, 100>> >>)

(***************************************************************************)
(* Bounded input domains                                                   *)
(***************************************************************************)
MaxTextLen == 3      \* longest input of the normaliser
MaxEnts == 3         \* longest input list of the deduplicator
MaxWordLen == 4      \* longest generated word of the deduplicator
MaxChars == 11       \* most characters in one input list
MaxTriples == 2      \* most triples in triples.json
MaxDocEnts == 2      \* most entities listed for one document
MaxItems == 3        \* most triples, documents and listed entities together
MaxRuns == 2         \* most calls of run() on one builder
MaxFiles == 2        \* most *.txt files in the corpus directory
MaxChunks == 2       \* most chunks of one file

StringsOfLen(A, n) == [1..n -> A]
StringsUpTo(A, n) == UNION {StringsOfLen(A, k) : k \in 0..n}

\* a, B, space, hyphen
NormAlphabet == {97, 66, 32, 45}
Texts == StringsUpTo(NormAlphabet, MaxTextLen)

\* a, p
DedupAlphabet == {97, 112}
\* "ap" (short), "App" (stop word), " ap" (short once stripped),
\* "apa " (trailing blank), "Appa" (differs from "appa" by case only)
SpecialWords ==
    { <<97, 112>>, <<65, 112, 112>>, <<32, 97, 112>>,
      <<97, 112, 97, 32>>, <<65, 112, 112, 97>> }
Words ==
    UNION {StringsOfLen(DedupAlphabet, k) : k \in 3..MaxWordLen} \cup SpecialWords

\* the lists of at most n words holding at most budget characters
RECURSIVE ListsWithin(_, _)
ListsWithin(n, budget) ==
    IF n = 0 THEN {<<>>}
    ELSE {<<>>} \cup
         UNION { {<<w>> \o rest : rest \in ListsWithin(n - 1, budget - Len(w))} :
                 w \in {x \in Words : Len(x) <= budget} }
EntLists == ListsWithin(MaxEnts, MaxChars)

\* entity names of the graph inputs; one coincides with a document node id
Names == {"X", "DOC_1"}
\* relations of the input triples: two semantic ones, the reserved one and
\* one outside the vocabulary
InputRels == {"uses", "defines", "mentions", "bogus_rel"}
TripleLists == StringsUpTo(Names \X InputRels \X Names, MaxTriples)
DocEntLists == StringsUpTo(Names, MaxDocEnts)
\* the mappings over the given keys, as lists of <<key, entities>> in key order
RECURSIVE DocMaps(_)
DocMaps(ids) ==
    {<<>>} \cup
    UNION { {<< <<d, es>> >> \o rest : es \in DocEntLists, rest \in DocMaps(ids \ {d})} :
            d \in ids }
RECURSIVE SumLens(_)
SumLens(de) == IF de = <<>> THEN 0 ELSE Len(Head(de)[2]) + SumLens(Tail(de))
InputSize(ts, de) == Len(ts) + Len(de) + SumLens(de)

\* the files of the corpus: the doc_id of the header ("none" if the header
\* is missing) and the number of chunks of the body
CorpusFiles == [doc_id : {"1", "2", "none"}, nchunks : 0..MaxChunks]
\* "kernel", "kernels", "io bus"
Candidates ==
    { <<107, 101, 114, 110, 101, 108>>, <<107, 101, 114, 110, 101, 108, 115>>,
      <<105, 111, 32, 98, 117, 115>> }
\* the oracle's behaviours on one chunk
Responses ==
    {Raises, NoArray, BadJson, Array(<<>>), Array(<<NonStrItem>>)}
    \cup {Array(<<StrItem(c)>>) : c \in Candidates}
    \cup {Array(<<StrItem(c), NonStrItem>>) : c \in Candidates}

(***************************************************************************)
(* The components at rest                                                  *)
(***************************************************************************)
NormIdle ==
    /\ text = <<>>
    /\ normalized = "unset"
    /\ renormalized = "unset"
    /\ npc = "idle"

DedupIdle ==
    /\ ents = <<>>
    /\ uniq = "unset"
    /\ uniq2 = "unset"
    /\ dpc = "idle"

GraphIdle ==
    /\ fileExists = [f \in Range(required) |-> FALSE]
    /\ triples = <<>>
    /\ doc_entities = <<>>
    /\ nodes = <<>>
    /\ edges = EmptyBag
    /\ gpc = "idle"
    /\ gerr = "none"
    /\ runs = 0
    /\ saved = [gpickle |-> Absent, gexf |-> Absent]

NoFile == [doc_id |-> "none", nchunks |-> 0]
ExtractIdle ==
    /\ apiKey = FALSE
    /\ nfiles = 0
    /\ cur = NoFile
    /\ result = <<>>
    /\ epc = "idle"
    /\ fi = 0
    /\ sent = 0
    /\ raw = <<>>
    /\ usable = <<>>
    /\ files = [p \in {OutputPath, StagingPath} |-> FileAbsent]

(***************************************************************************)
(* Specification SpecNorm: _to_camel_case on every bounded input           *)
(***************************************************************************)
NormInit ==
    /\ text \in Texts
    /\ normalized = "unset"
    /\ renormalized = "unset"
    /\ npc = "input"
    /\ DedupIdle /\ GraphIdle /\ ExtractIdle

\* _to_camel_case(text)
Normalize ==
    /\ npc = "input"
    /\ normalized' = ToCamelCase(text)
    /\ npc' = "normalized"
    /\ UNCHANGED <<text, renormalized, dedupVars, graphVars, extractVars>>

\* _to_camel_case applied to its own result
Renormalize ==
    /\ npc = "normalized"
    /\ renormalized' = ToCamelCase(normalized)
    /\ npc' = "done"
    /\ UNCHANGED <<text, normalized, dedupVars, graphVars, extractVars>>

NormNext == Normalize \/ Renormalize
SpecNorm == NormInit /\ [][NormNext]_vars

(***************************************************************************)
(* Specification SpecDedup: _deduplicate on every bounded input            *)
(***************************************************************************)
DedupInit ==
    /\ ents \in EntLists
    /\ uniq = "unset"
    /\ uniq2 = "unset"
    /\ dpc = "input"
    /\ NormIdle /\ GraphIdle /\ ExtractIdle

\* _deduplicate(ents)
Dedup ==
    /\ dpc = "input"
    /\ uniq' = Deduplicate(ents)
    /\ dpc' = "deduplicated"
    /\ UNCHANGED <<ents, uniq2, normVars, graphVars, extractVars>>

\* _deduplicate applied to its own result
Rededup ==
    /\ dpc = "deduplicated"
    /\ uniq2' = Deduplicate(uniq)
    /\ dpc' = "done"
    /\ UNCHANGED <<ents, uniq, normVars, graphVars, extractVars>>

DedupNext == Dedup \/ Rededup
SpecDedup == DedupInit /\ [][DedupNext]_vars

(***************************************************************************)
(* Specification SpecGraph: a GraphBuilder over every bounded input        *)
(***************************************************************************)
GraphInit ==
    /\ fileExists \in [Range(required) -> BOOLEAN]
    /\ triples \in (IF fileExists["triples.json"] THEN TripleLists ELSE {<<>>})
    /\ doc_entities \in (IF fileExists["doc_entities.json"] THEN DocMaps(DocIds) ELSE {<<>>})
    /\ InputSize(triples, doc_entities) <= MaxItems
    /\ nodes = <<>>
    /\ edges = EmptyBag
    /\ gpc = "new"
    /\ gerr = "none"
    /\ runs = 0
    /\ saved \in { [gpickle |-> Absent, gexf |-> Absent],
                   [gpickle |-> Complete(EarlierGraph), gexf |-> Complete(EarlierGraph)] }
    /\ NormIdle /\ DedupIdle /\ ExtractIdle

\* GraphBuilder.__init__: an empty MultiDiGraph, then _check_required_files
Construct ==
    /\ gpc = "new"
    /\ nodes' = EmptyGraph.nodes
    /\ edges' = EmptyGraph.edges
    /\ LET k == FirstMissing(fileExists)
       IN  IF k = 0
           THEN gpc' = "ready" /\ gerr' = "none"
           ELSE gpc' = "failed" /\ gerr' = required[k]
    /\ UNCHANGED <<fileExists, triples, doc_entities, runs, saved, normVars, dedupVars, extractVars>>

\* run(), first statement: _load_sources reads both files
LoadSources ==
    /\ gpc \in {"ready", "done"}
    /\ runs < MaxRuns
    /\ runs' = runs + 1
    /\ gpc' = "loaded"
    /\ UNCHANGED <<fileExists, triples, doc_entities, nodes, edges, gerr, saved,
                   normVars, dedupVars, extractVars>>

\* run(): self._add_triples(triples)
AddTriplesStep ==
    /\ gpc = "loaded"
    /\ LET g == AddTriples([nodes |-> nodes, edges |-> edges], triples)
       IN  nodes' = g.nodes /\ edges' = g.edges
    /\ gpc' = "triples_added"
    /\ UNCHANGED <<fileExists, triples, doc_entities, gerr, runs, saved,
                   normVars, dedupVars, extractVars>>

\* run(): self._link_documents(doc_entities)
LinkDocumentsStep ==
    /\ gpc = "triples_added"
    /\ LET g == LinkDocuments([nodes |-> nodes, edges |-> edges], doc_entities)
       IN  nodes' = g.nodes /\ edges' = g.edges
    /\ gpc' = "linked"
    /\ UNCHANGED <<fileExists, triples, doc_entities, gerr, runs, saved,
                   normVars, dedupVars, extractVars>>

\* run(): self._print_stats(); next(iter(self.graph.nodes)) raises
\* StopIteration on a graph without nodes
PrintStats ==
    /\ gpc = "linked"
    /\ IF DOMAIN nodes = {}
       THEN gpc' = "failed" /\ gerr' = "StopIteration"
       ELSE gpc' = "save_gpickle" /\ gerr' = gerr
    /\ UNCHANGED <<fileExists, triples, doc_entities, nodes, edges, runs, saved,
                   normVars, dedupVars, extractVars>>

\* _save: nx.write_gpickle opens (truncates) knowledge_graph.gpickle
OpenGpickle ==
    /\ gpc = "save_gpickle"
    /\ saved' = [saved EXCEPT !.gpickle = Partial([nodes |-> nodes, edges |-> edges])]
    /\ gpc' = "writing_gpickle"
    /\ UNCHANGED <<fileExists, triples, doc_entities, nodes, edges, gerr, runs,
                   normVars, dedupVars, extractVars>>

\* _save: nx.write_gpickle finishes the dump
WriteGpickle ==
    /\ gpc = "writing_gpickle"
    /\ saved' = [saved EXCEPT !.gpickle = Complete([nodes |-> nodes, edges |-> edges])]
    /\ gpc' = "save_gexf"
    /\ UNCHANGED <<fileExists, triples, doc_entities, nodes, edges, gerr, runs,
                   normVars, dedupVars, extractVars>>

\* _save: nx.write_gexf opens (truncates) knowledge_graph.gexf
OpenGexf ==
    /\ gpc = "save_gexf"
    /\ saved' = [saved EXCEPT !.gexf = Partial([nodes |-> nodes, edges |-> edges])]
    /\ gpc' = "writing_gexf"
    /\ UNCHANGED <<fileExists, triples, doc_entities, nodes, edges, gerr, runs,
                   normVars, dedupVars, extractVars>>

\* _save: nx.write_gexf finishes, run() returns
WriteGexf ==
    /\ gpc = "writing_gexf"
    /\ saved' = [saved EXCEPT !.gexf = Complete([nodes |-> nodes, edges |-> edges])]
    /\ gpc' = "done"
    /\ UNCHANGED <<fileExists, triples, doc_entities, nodes, edges, gerr, runs,
                   normVars, dedupVars, extractVars>>

\* the process is killed in the middle of run()
GraphCrash ==
    /\ gpc \in {"loaded", "triples_added", "linked", "save_gpickle",
                "writing_gpickle", "save_gexf", "writing_gexf"}
    /\ gpc' = "crashed"
    /\ UNCHANGED <<fileExists, triples, doc_entities, nodes, edges, gerr, runs, saved,
                   normVars, dedupVars, extractVars>>

GraphNext ==
    \/ Construct
    \/ LoadSources
    \/ AddTriplesStep
    \/ LinkDocumentsStep
    \/ PrintStats
    \/ OpenGpickle
    \/ WriteGpickle
    \/ OpenGexf
    \/ WriteGexf
    \/ GraphCrash
SpecGraph == GraphInit /\ [][GraphNext]_vars

(***************************************************************************)
(* Specification SpecExtract: EntityExtractor.run over a bounded corpus    *)
(***************************************************************************)
ExtractInit ==
    /\ apiKey \in BOOLEAN
    /\ nfiles \in 0..MaxFiles
    /\ cur = NoFile
    /\ result = <<>>
    /\ epc = "start"
    /\ fi = 0
    /\ sent = 0
    /\ raw = <<>>
    /\ usable = <<>>
    /\ files \in { [p \in {OutputPath, StagingPath} |->
                      IF p = OutputPath THEN old ELSE FileAbsent] :
                   old \in {FileAbsent, FileComplete(PreviousResult)} }
    /\ NormIdle /\ DedupIdle /\ GraphIdle

\* run(): the sorted *.txt files; without any, a warning and return
StartRun ==
    /\ epc = "start"
    /\ IF nfiles = 0
       THEN epc' = "done" /\ fi' = fi
       ELSE epc' = "read_file" /\ fi' = 1
    /\ UNCHANGED <<apiKey, nfiles, cur, result, sent, raw, usable, files,
                   normVars, dedupVars, graphVars>>

\* _process_file: read the file, find doc_id (None without it), cut the
\* body into chunks
ReadFile ==
    /\ epc = "read_file"
    /\ \E f \in CorpusFiles :
          /\ cur' = f
          /\ epc' = IF f.doc_id = "none" THEN "file_done"
                    ELSE IF f.nchunks = 0 THEN "clean" ELSE "chunk"
    /\ raw' = <<>>
    /\ usable' = <<>>
    /\ sent' = 0
    /\ UNCHANGED <<apiKey, nfiles, result, fi, files, normVars, dedupVars, graphVars>>

\* _process_file: raw.extend(self._call_llm(chunk)) for the next chunk
CallLlm ==
    /\ epc = "chunk"
    /\ \E resp \in Responses :
          /\ raw' = raw \o FetchAsync(apiKey, resp)
          /\ usable' =
                IF apiKey /\ resp.kind = "array"
                          /\ \A k \in 1..Len(resp.items) : resp.items[k].str
                THEN usable \o [k \in 1..Len(resp.items) |-> resp.items[k].val]
                ELSE usable
    /\ sent' = sent + 1
    /\ epc' = IF sent + 1 = cur.nchunks THEN "clean" ELSE "chunk"
    /\ UNCHANGED <<apiKey, nfiles, cur, result, fi, files, normVars, dedupVars, graphVars>>

\* _process_file: normalise, deduplicate, return; run(): result.update(res)
CleanFile ==
    /\ epc = "clean"
    /\ LET c == Cleaned(raw)
       IN  result' = IF c.none THEN result ELSE Update(result, cur.doc_id, c.list)
    /\ epc' = "file_done"
    /\ UNCHANGED <<apiKey, nfiles, cur, fi, sent, raw, usable, files,
                   normVars, dedupVars, graphVars>>

\* run(): the next file; after the last one, return with a warning when
\* nothing was extracted
NextFile ==
    /\ epc = "file_done"
    /\ IF fi < nfiles
       THEN fi' = fi + 1 /\ epc' = "read_file"
       ELSE fi' = fi /\ epc' = IF DOMAIN result = {} THEN "done" ELSE "write_tmp"
    /\ UNCHANGED <<apiKey, nfiles, cur, result, sent, raw, usable, files,
                   normVars, dedupVars, graphVars>>

\* run(): tmp.write_text opens (creates or truncates) the staging file
OpenTmp ==
    /\ epc = "write_tmp"
    /\ files' = [files EXCEPT ![StagingPath] = FilePartial(result)]
    /\ epc' = "writing_tmp"
    /\ UNCHANGED <<apiKey, nfiles, cur, result, fi, sent, raw, usable,
                   normVars, dedupVars, graphVars>>

\* run(): tmp.write_text writes the whole JSON text and closes the file
WriteTmp ==
    /\ epc = "writing_tmp"
    /\ files' = [files EXCEPT ![StagingPath] = FileComplete(result)]
    /\ epc' = "replace"
    /\ UNCHANGED <<apiKey, nfiles, cur, result, fi, sent, raw, usable,
                   normVars, dedupVars, graphVars>>

\* run(): tmp.replace(self.output_path)
Replace ==
    /\ epc = "replace"
    /\ files' = Rename(files, StagingPath, OutputPath)
    /\ epc' = "done"
    /\ UNCHANGED <<apiKey, nfiles, cur, result, fi, sent, raw, usable,
                   normVars, dedupVars, graphVars>>

\* the process is killed in the middle of run()
ExtractCrash ==
    /\ epc \in {"read_file", "chunk", "clean", "file_done", "write_tmp",
                "writing_tmp", "replace"}
    /\ epc' = "crashed"
    /\ UNCHANGED <<apiKey, nfiles, cur, result, fi, sent, raw, usable, files,
                   normVars, dedupVars, graphVars>>

ExtractNext ==
    \/ StartRun
    \/ ReadFile
    \/ CallLlm
    \/ CleanFile
    \/ NextFile
    \/ OpenTmp
    \/ WriteTmp
    \/ Replace
    \/ ExtractCrash
SpecExtract == ExtractInit /\ [][ExtractNext]_vars

(***************************************************************************)
(* Claims about the normaliser and the deduplicator                        *)
(***************************************************************************)
\* an input of _deduplicate that is neither short nor a stop word
Eligible(x) == Len(Strip(x)) > 2 /\ Strip(x) \notin STOPWORDS
\* case-insensitive similarity above the threshold
Similar(x, y) ==
    JaroWinklerAbove(LowerStr(Strip(x)), LowerStr(Strip(y)))
\* the pairs of positions i < j of the input holding different eligible
\* strings whose similarity exceeds the threshold
SimilarPairs ==
    { p \in (1..Len(ents)) \X (1..Len(ents)) :
        /\ p[1] < p[2]
        /\ Eligible(ents[p[1]]) /\ Eligible(ents[p[2]])
        /\ Strip(ents[p[1]]) # Strip(ents[p[2]])
        /\ Similar(ents[p[1]], ents[p[2]]) }
\* the string at position j occurs at no other position of the input
OccursOnce(j) == \A k \in 1..Len(ents) : Strip(ents[k]) = Strip(ents[j]) => k = j

\* C3 as stated: of two similar eligible inputs at most one is in the output
\* of _deduplicate, and never the one with the larger input index.
C3_SmallerIndexSurvives ==
    dpc # "input" =>
        \A p \in SimilarPairs :
            /\ ~(Strip(ents[p[1]]) \in Range(uniq) /\ Strip(ents[p[2]]) \in Range(uniq))
            /\ OccursOnce(p[2]) => Strip(ents[p[2]]) \notin Range(uniq)

\* C3 amended: of two similar eligible inputs at most one is in the output;
\* the one with the larger index is in the output only if the one with the
\* smaller index was dropped as a near-duplicate of a string that precedes
\* it in the input and is in the output.
C3_AtMostOneSurvives ==
    dpc # "input" =>
        \A p \in SimilarPairs :
            /\ ~(Strip(ents[p[1]]) \in Range(uniq) /\ Strip(ents[p[2]]) \in Range(uniq))
            /\ Strip(ents[p[2]]) \in Range(uniq) =>
                   \E k \in 1..(p[1] - 1) :
                       /\ Eligible(ents[k])
                       /\ Similar(ents[p[1]], ents[k])
                       /\ Strip(ents[k]) \in Range(uniq)

\* a similar pair whose later member survives because the earlier one was
\* dropped against a third string
C3_Witness ==
    /\ dpc = "deduplicated"
    /\ \E p \in SimilarPairs :
           /\ OccursOnce(p[2])
           /\ Strip(ents[p[2]]) \in Range(uniq)
           /\ Strip(ents[p[1]]) \notin Range(uniq)

\* C4 as stated: normalising a normalised string returns it unchanged.
C4_NormalizationIdempotent ==
    npc = "done" => renormalized = normalized

\* C10: deduplicating the output of _deduplicate returns it unchanged.
C10_DedupIdempotent ==
    dpc = "done" => uniq2 = uniq

\* a second pass over survivors that the first pass met in another order,
\* after a first pass that dropped a near-duplicate
C10_Witness ==
    /\ dpc = "done"
    /\ Len(uniq) >= 2
    /\ uniq # DedupLoop(ents, 1, <<>>)
    /\ SimilarPairs # {}
    /\ uniq2 = uniq

(***************************************************************************)
(* Claims about graph assembly                                             *)
(***************************************************************************)
\* no two edges share source, target and relation kind
NoParallelDuplicates == \A e \in BagToSet(edges) : CopiesIn(e, edges) = 1
\* a pass of a second run() over the graph the first run() assembled from
\* the same inputs leaves the node set and the edges as they were
ReassemblyKeepsGraph ==
    (runs >= 2 /\ gpc \in {"loaded", "triples_added"}
               /\ gpc' \in {"triples_added", "linked"})
        => (DOMAIN nodes' = DOMAIN nodes /\ edges' = edges)

\* C1 as stated: assembling again from the same inputs changes neither the
\* node set nor the edge set, and the graph never holds two parallel edges
\* with the same source, target and relation kind.
C1_AssemblyIdempotent ==
    []NoParallelDuplicates /\ [][ReassemblyKeepsGraph]_vars

\* the positions of run() at which both assembly passes have completed
Assembled ==
    {"linked", "save_gpickle", "writing_gpickle", "save_gexf", "writing_gexf", "done"}
EdgeKindsRespected ==
    \A e \in BagToSet(edges) :
        IF e[3] = "mentions"
        THEN nodes[e[1]].type = "entity" /\ nodes[e[2]].type = "document"
        ELSE nodes[e[1]].type = "entity" /\ nodes[e[2]].type = "entity"
DocumentKindKept ==
    \A n \in DOMAIN nodes : nodes[n].type = "document" => nodes'[n].type = "document"

\* C2 as stated: in an assembled graph every mentions edge runs from an
\* entity node to a document node and every other edge joins two entity
\* nodes, and a document node never changes its kind.
C2_EdgeKindsRespected ==
    [](gpc \in Assembled => EdgeKindsRespected) /\ [][DocumentKindKept]_vars

\* the eight semantic relation kinds
SemanticKinds ==
    { "defines", "uses", "depends_on", "implements", "part_of", "type_of",
      "runs_on", "opposite_of" }
\* the edges _add_triples is to add: one head -> tail edge of the triple's
\* relation for each distinct triple with a semantic relation
EdgesOfTriples ==
    SetToBag({<<t[1], t[3], t[2]>> : t \in {x \in Range(triples) : x[2] \in SemanticKinds}})

\* C5: a pass of _add_triples adds exactly one edge head -> tail, with the
\* triple's relation, for each distinct triple whose relation is one of the
\* eight semantic kinds, and no edge for any other triple (none for a
\* relation outside the vocabulary, none for mentions).
C5_RelationValidation ==
    [][(gpc = "loaded" /\ gpc' = "triples_added")
          => edges' = edges (+) EdgesOfTriples]_vars

\* _add_triples has run on a list holding both a mentions triple and a
\* triple with a semantic relation
C5_Witness ==
    /\ gpc = "triples_added"
    /\ \E i, j \in 1..Len(triples) :
           triples[i][2] = "mentions" /\ triples[j][2] \in SemanticKinds
    /\ edges # EmptyBag

\* C8: when a required file is missing, construction fails with an error
\* naming a missing file, and the graph is empty and run() never starts.
C8_MissingFileFailsFast ==
    (gpc # "new" /\ \E f \in Range(required) : ~fileExists[f])
        => /\ gpc = "failed"
           /\ gerr \in {f \in Range(required) : ~fileExists[f]}
           /\ DOMAIN nodes = {}
           /\ edges = EmptyBag
           /\ runs = 0

\* construction failed on triples.json, the second file looked for
C8_Witness ==
    /\ gpc = "failed"
    /\ gerr = "triples.json"
    /\ fileExists["doc_entities.json"]

(***************************************************************************)
(* Claims about the extraction run                                         *)
(***************************************************************************)
\* the output path holds nothing, the earlier artifact or the new mapping
OutputIsWhole ==
    files[OutputPath] \in
        {FileAbsent, FileComplete(PreviousResult), FileComplete(result)}
\* the output path changes only by taking over the complete staged mapping
OutputChangesByRename ==
    files'[OutputPath] # files[OutputPath]
        => /\ files[StagingPath] = FileComplete(result)
           /\ files'[OutputPath] = FileComplete(result)

\* C6: at every step of run(), a crash included, the output path holds the
\* complete earlier artifact (or nothing) or the complete new mapping, and
\* it changes only by the rename of the completely written staging file.
C6_AtomicWrite ==
    []OutputIsWhole /\ [][OutputChangesByRename]_vars

\* a crash while the staging file is half written, the earlier artifact
\* still in place
C6_Witness ==
    /\ epc = "crashed"
    /\ files[StagingPath].state = "partial"
    /\ files[OutputPath] = FileComplete(PreviousResult)

\* C7 as stated: without OPENAI_API_KEY the run stops at startup, so no
\* chunk is ever passed to the oracle wrapper.
C7_MissingKeyFatalAtStartup ==
    ~apiKey => sent = 0

\* C9 as stated: once a file with a doc_id is processed, the strings of the
\* usable arrays returned for its chunks, normalised and deduplicated, are
\* recorded under its doc_id, whatever the oracle did on its other chunks.
C9_ChunkFailureContained ==
    (epc = "file_done" /\ cur.doc_id # "none")
        => LET expected ==
                   Deduplicate([k \in 1..Len(usable) |-> ToCamelCase(usable[k])])
           IN  expected # <<>>
                   => /\ cur.doc_id \in DOMAIN result
                      /\ result[cur.doc_id] = expected

(***************************************************************************)
(* Claims about document linking, the node set and the saved graph files   *)
(***************************************************************************)
LinkedAsMapped ==
    \A i \in 1..Len(doc_entities) :
        LET d  == doc_entities[i][1]
            es == doc_entities[i][2]
        IN  /\ DocNode(d) \in DOMAIN nodes
            /\ nodes[DocNode(d)].type = "document"
            /\ nodes[DocNode(d)].doc_id = IntOf(d)
            /\ \A k \in 1..Len(es) :
                  /\ es[k] \in DOMAIN nodes
                  /\ nodes[es[k]].type = "entity"
                  /\ <<es[k], DocNode(d), "mentions">> \in BagToSet(edges)
OnlyMappedMentions ==
    \A e \in BagToSet(edges) :
        e[3] = "mentions"
            => \E i \in 1..Len(doc_entities) :
                  \E k \in 1..Len(doc_entities[i][2]) :
                      e = <<doc_entities[i][2][k], DocNode(doc_entities[i][1]), "mentions">>

\* C11 as stated: in the assembled graph, for every key d of the doc-entity
\* mapping and every entity e of d's list, DOC_<d> is a node of kind document
\* with integer doc_id d, e is a node of kind entity and there is a mentions
\* edge e -> DOC_<d>; and the graph holds no other mentions edge.
C11_DocumentsLinked ==
    gpc \in Assembled => (LinkedAsMapped /\ OnlyMappedMentions)

\* the nodes that are the source or the target of at least one edge
Endpoints == {e[1] : e \in BagToSet(edges)} \cup {e[2] : e \in BagToSet(edges)}

\* C12 as stated: after assembly from any triple list and any doc-entity
\* mapping, a mapping with an empty entity list included, the node set is
\* exactly the set of nodes that are an endpoint of at least one edge; no
\* node without an incident edge exists.
C12_NoIsolatedNodes ==
    gpc \in Assembled => DOMAIN nodes = Endpoints

\* the two files _save writes
GraphFiles == {"gpickle", "gexf"}

\* C13 as stated: at every step of _save, and after a crash at any step,
\* each of knowledge_graph.gpickle and knowledge_graph.gexf holds a complete
\* graph (the previously saved one or the new one) or does not exist yet;
\* neither is ever a partially written file.
C13_GraphWritesAtomic ==
    \A f \in GraphFiles : saved[f].state # "partial"

====
